---- MODULE Spec2Model ----
(***************************************************************************)
(* Model of the hr-data-dashboard (src/hr_dashboard): the point-in-time    *)
(* resolver and the filter engine of data_manager.py, the health checks    *)
(* of utils/data_health.py, the session cache of generated data and the    *)
(* script run of app.py, the exports of utils/export.py and filters.py,    *)
(* and the tabs that read the filtered table set.                          *)
(*                                                                         *)
(* A DataFrame is a sequence of rows; a row is a record of its columns     *)
(* plus "index", the DataFrame index label the row keeps through sorting   *)
(* and boolean selection.  A table set (the dict the generator returns)    *)
(* is a function from table names to tables.                               *)
(***************************************************************************)
EXTENDS Integers, Sequences, FiniteSets, TLC

(* ----------------------------- bounds ---------------------------------- *)

\* Employees of the generated data carry the ids 1..NumEmp.
NumEmp == 2
\* Longest assignment history explored by the resolver specification.
MaxRows == 3

VARIABLES
    history,        \* resolver: the assignment history handed to the resolver
    current,        \* resolver: the rows it selected as current
    rpc,            \* resolver: "input" before, "resolved" after the resolution
    data,           \* filter engine: the raw table set (st.session_state["hr_data"])
    filters,        \* filter engine: the arguments of the last get_filtered_data call
    resolved,       \* filter engine: current_jobs, current_orgs, current_comp of that call
    filtered_data,  \* filter engine: the table set that call returned
    pc,             \* filter engine: "loaded" before, "filtered" after a call
    enriched_df,    \* tabs: the frame enrich_employee_data returned to the overview tab
    tabs,           \* tabs: what the compensation and performance tabs showed
    health_data,    \* health checks: the table set handed to render_health_panel
    health_args,    \* health checks: start_year, end_year, include_hiring of the call
    checks,         \* health checks: the outcome of render_health_panel
    hpc,            \* health checks: "input" before, "rendered" after the call
    session_state,  \* session: st.session_state, a dict
    last_call,      \* session: the last call or script run and its outcome
    export_env,     \* export: the table set to export and the Parquet encoder's state
    downloads       \* export: the last export call and its outcome

resolverVars == <<history, current, rpc>>
filterVars == <<data, filters, resolved, filtered_data, pc>>
tabVars == <<enriched_df, tabs>>
healthVars == <<health_data, health_args, checks, hpc>>
sessionVars == <<session_state, last_call>>
exportVars == <<export_env, downloads>>
vars == <<history, current, rpc, data, filters, resolved, filtered_data, pc,
          enriched_df, tabs, health_data, health_args, checks, hpc,
          session_state, last_call, export_env, downloads>>

(* --------------------------- value domains ----------------------------- *)

\* pandas' missing value of a numeric column, and of an object column.
NaN == 0 - 1
None == "NULL"

EmployeeIds == 1..NumEmp
\* Start dates, as day numbers.
Dates == {1, 2}

\* Series.isna(), on a numeric and on an object column.
IsNaNum(x) == x = NaN
IsNaObj(x) == x = None

(* ------------------------- sequence helpers ---------------------------- *)

\* The rows of t at the positions in I, in t's order (boolean selection).
SelectIdx(t, I) ==
    LET F[i \in 0..Len(t)] ==
            IF i = 0 THEN <<>>
            ELSE IF i \in I THEN Append(F[i - 1], t[i]) ELSE F[i - 1]
    IN  F[Len(t)]

\* Concatenation of a sequence of sequences.
Flatten(ss) ==
    LET F[i \in 0..Len(ss)] == IF i = 0 THEN <<>> ELSE F[i - 1] \o ss[i]
    IN  F[Len(ss)]

Range(t) == {t[i] : i \in DOMAIN t}

\* A freshly built DataFrame: row i carries the RangeIndex label i - 1.
WithIndex(rows) == [i \in DOMAIN rows |-> rows[i] @@ [index |-> i - 1]]

\* t without its row at position i.
RemoveAt(t, i) == SubSeq(t, 1, i - 1) \o SubSeq(t, i + 1, Len(t))

(* ----------------------- point-in-time resolver ------------------------ *)

\* df.sort_values("start_date", ascending=ascending) with pandas' default
\* kind="quicksort", which is not a stable sort: every arrangement of the
\* rows with monotone start_date is a possible outcome, whatever the order
\* it gives to rows with equal start_date.
RECURSIVE SortValues(_, _)
SortValues(t, ascending) ==
    IF t = <<>> THEN {<<>>}
    ELSE UNION {{<<t[i]>> \o s : s \in SortValues(RemoveAt(t, i), ascending)} :
                    i \in {k \in DOMAIN t :
                            \A j \in DOMAIN t :
                                IF ascending
                                THEN t[k].start_date <= t[j].start_date
                                ELSE t[k].start_date >= t[j].start_date}}

\* Mutant: ascending=False forgotten (oldest row first).
SortValuesAscending(t) == SortValues(t, TRUE)

\* df.sort_values("start_date", ascending=False)
SortValuesDesc(t) == SortValues(t, FALSE)

\* Mutant: the subset argument forgotten, rows compared on every column.
DropDuplicatesAllColumns(t) ==
    SelectIdx(t, {i \in 1..Len(t) :
                    \A j \in 1..(i - 1) :
                        [c \in DOMAIN t[j] \ {"index"} |-> t[j][c]]
                            # [c \in DOMAIN t[i] \ {"index"} |-> t[i][c]]})

\* df.drop_duplicates("employee_id", keep="first")
DropDuplicatesFirst(t) ==
    SelectIdx(t, {i \in 1..Len(t) :
                    \A j \in 1..(i - 1) : t[j].employee_id # t[i].employee_id})

\* The possible values of
\*   t.sort_values("start_date", ascending=False)
\*    .drop_duplicates("employee_id", keep="first")
CurrentRows(t) == {DropDuplicatesFirst(s) : s \in SortValuesDesc(t)}

\* The rows of S as a table, in the order of their index labels.
RECURSIVE AsTable(_)
AsTable(S) ==
    IF S = {} THEN <<>>
    ELSE LET r == CHOOSE x \in S : \A y \in S : x.index <= y.index
         IN  <<r>> \o AsTable(S \ {r})

\* The tables current_x may be, up to the order of their rows: a merge on
\* employee_id reads at most one row of current_x per employee, whatever
\* their order, so each outcome is kept once, in index order.
CurrentRowsInOrder(t) == {AsTable(Range(s)) : s \in CurrentRows(t)}

(* ------------------------------ merges -------------------------------- *)

\* The columns of a row. A merge result carries a fresh RangeIndex, the
\* position of the row, which needs no column of its own.
Columns(r) ==
    IF "index" \in DOMAIN r THEN [c \in DOMAIN r \ {"index"} |-> r[c]] ELSE r

\* left.merge(right[[key, col]], on=key, how="left"): every left row, once
\* per right row with the same key, or once with the missing value of the
\* column when no right row has its key.
LeftMergeWith(left, right, key, col, missing) ==
    Flatten(
        [i \in DOMAIN left |->
            LET m == SelectSeq(right, LAMBDA r : r[key] = left[i][key])
            IN  IF m = <<>>
                THEN <<Columns(left[i]) @@ (col :> missing)>>
                ELSE [k \in DOMAIN m |-> Columns(left[i]) @@ (col :> m[k][col])]])

\* Mutant: how="inner", left rows without a match are dropped.
InnerMerge(left, right, key, col) ==
    Flatten(
        [i \in DOMAIN left |->
            LET m == SelectSeq(right, LAMBDA r : r[key] = left[i][key])
            IN  [k \in DOMAIN m |-> Columns(left[i]) @@ (col :> m[k][col])]])

LeftMerge(left, right, key, col) == LeftMergeWith(left, right, key, col, NaN)
\* The same for an object (string) column, whose missing value is None.
LeftMergeObj(left, right, key, col) == LeftMergeWith(left, right, key, col, None)

(* --------------------------- filter engine ----------------------------- *)

\* An optional argument: None, or a value (a list; a (lo, hi) tuple).
NoArg == [given |-> FALSE, v |-> <<>>]
Arg(x) == [given |-> TRUE, v |-> x]
\* Mutant: "is not None" tested where truthiness is.
TruthyNotNone(a) == a.given
\* Python truthiness of an optional list: neither None nor empty.
Truthy(a) == a.given /\ a.v # <<>>

HasTable(d, name) == name \in DOMAIN d

\* employees_enriched (data_manager.py lines 174-188), given the current
\* job and org rows.
EmployeesEnriched(d, current_jobs, current_orgs) ==
    LET m1 == LeftMerge(d["employee"], current_jobs, "employee_id", "job_id")
        m2 == LeftMerge(m1, d["job_role"], "job_id", "seniority_level")
        m3 == LeftMerge(m2, current_orgs, "employee_id", "org_id")
        m4 == LeftMergeObj(m3, d["organization_unit"], "org_id", "business_unit")
    IN  LeftMergeObj(m4, d["location"], "location_id", "country")

\* Mutant: the isna() alternative left out.
BusinessUnitMaskNoNull(row, business_units) ==
    Truthy(business_units) => row.business_unit \in Range(business_units.v)

\* if business_units: mask &= isin(business_units) | isna()
BusinessUnitMask(row, business_units) ==
    Truthy(business_units) =>
        (row.business_unit \in Range(business_units.v) \/ IsNaObj(row.business_unit))

\* Mutant: missing seniority passes, as a missing business unit does.
SeniorityMaskNullPasses(row, seniority_levels) ==
    Truthy(seniority_levels) =>
        (row.seniority_level \in Range(seniority_levels.v) \/ IsNaNum(row.seniority_level))

\* if seniority_levels: mask &= isin(seniority_levels)
SeniorityMask(row, seniority_levels) ==
    Truthy(seniority_levels) => row.seniority_level \in Range(seniority_levels.v)

\* if countries: mask &= isin(countries)
CountryMask(row, countries) ==
    Truthy(countries) => row.country \in Range(countries.v)

\* valid_emp_ids: the employees whose current base_salary lies in the range
\* (a comparison with NaN is false).
ValidEmpIds(current_comp, salary_range) ==
    {current_comp[i].employee_id : i \in
        {j \in DOMAIN current_comp :
            /\ ~IsNaNum(current_comp[j].base_salary)
            /\ current_comp[j].base_salary >= salary_range.v[1]
            /\ current_comp[j].base_salary <= salary_range.v[2]}}

\* Mutant: the salary filter applied without testing for the table.
SalaryMaskTableNotTested(row, d, current_comp, salary_range) ==
    salary_range.given => row.employee_id \in ValidEmpIds(current_comp, salary_range)

\* if salary_range and "employee_compensation" in data:
\*     mask &= employee_id.isin(valid_emp_ids)
SalaryMask(row, d, current_comp, salary_range) ==
    (salary_range.given /\ HasTable(d, "employee_compensation")) =>
        row.employee_id \in ValidEmpIds(current_comp, salary_range)

\* Mutant: the country predicate joined with |= instead of &=.
FilteredEmpIdsCountryOr(d, f, cur) ==
    LET enriched == EmployeesEnriched(d, cur.current_jobs, cur.current_orgs)
        mask == [j \in DOMAIN enriched |->
                    /\ \/ /\ BusinessUnitMask(enriched[j], f.business_units)
                          /\ SeniorityMask(enriched[j], f.seniority_levels)
                       \/ /\ Truthy(f.countries)
                          /\ enriched[j].country \in Range(f.countries.v)
                    /\ SalaryMask(enriched[j], d, cur.current_comp, f.salary_range)]
    IN  {enriched[j].employee_id : j \in {k \in DOMAIN enriched : mask[k]}}

\* mask (lines 190-213) over the rows of employees_enriched, and
\* employees_enriched.loc[mask, "employee_id"]
MaskedEmpIds(enriched, d, f, cur) ==
    LET mask == [j \in DOMAIN enriched |->
                    /\ BusinessUnitMask(enriched[j], f.business_units)
                    /\ SeniorityMask(enriched[j], f.seniority_levels)
                    /\ CountryMask(enriched[j], f.countries)
                    /\ SalaryMask(enriched[j], d, cur.current_comp, f.salary_range)]
    IN  {enriched[j].employee_id : j \in {k \in DOMAIN enriched : mask[k]}}

\* filtered_emp_ids = employees_enriched.loc[mask, "employee_id"]
FilteredEmpIds(d, f, cur) ==
    MaskedEmpIds(EmployeesEnriched(d, cur.current_jobs, cur.current_orgs), d, f, cur)

\* t[t["employee_id"].isin(ids)]
RestrictTo(t, ids) == SelectSeq(t, LAMBDA r : r.employee_id \in ids)

EmployeeTables == {"employee", "employee_job_assignment", "employee_org_assignment"}
OptionalTables == {"employee_compensation", "employee_performance"}
ReferenceTables == {"organization_unit", "job_role", "location"}

\* The tables of the result (lines 218-245): the employee tables and the
\* optional tables the input holds, restricted to the surviving employees,
\* and the reference tables as they are.
FilteredTables(d, f, cur) ==
    LET ids == FilteredEmpIds(d, f, cur)
    IN  [name \in EmployeeTables \cup (OptionalTables \cap DOMAIN d) \cup ReferenceTables |->
            IF name \in ReferenceTables THEN d[name] ELSE RestrictTo(d[name], ids)]

\* Mutant: employee_performance returned as it came.
GetFilteredDataPerformanceUnfiltered(d, f, cur) ==
    [name \in DOMAIN FilteredTables(d, f, cur) |->
        IF name = "employee_performance" THEN d[name] ELSE FilteredTables(d, f, cur)[name]]

\* Mutant: organization_unit restricted to the selected business units.
GetFilteredDataUnitsFiltered(d, f, cur) ==
    [name \in DOMAIN FilteredTables(d, f, cur) |->
        IF name = "organization_unit" /\ Truthy(f.business_units)
        THEN SelectIdx(d[name], {i \in DOMAIN d[name] :
                                    d[name][i].business_unit \in Range(f.business_units.v)})
        ELSE FilteredTables(d, f, cur)[name]]

\* The dict get_filtered_data returns, given the current rows of the call.
GetFilteredData(d, f, cur) == FilteredTables(d, f, cur)

\* The possible current_comp of one call (lines 209-211): computed only when
\* the salary filter applies.
CurrentComp(d, f) ==
    IF f.salary_range.given /\ HasTable(d, "employee_compensation")
    THEN CurrentRowsInOrder(d["employee_compensation"])
    ELSE {<<>>}

(* ------------------- specification of the resolver --------------------- *)

\* Sequences over S of length at most n.
SeqUpTo(S, n) == UNION {[1..k -> S] : k \in 0..n}

\* Keys and amounts that occur in the assignment histories.
JobIds == {1, 2}
OrgIds == {1, 2}
Salaries == {1, 2}

JobRows == [employee_id : EmployeeIds, job_id : JobIds, start_date : Dates]
OrgRows == [employee_id : EmployeeIds, org_id : OrgIds, start_date : Dates]
CompRows == [employee_id : EmployeeIds, base_salary : Salaries, start_date : Dates]

\* The assignment histories of at most MaxRows rows: employee_job_assignment,
\* employee_org_assignment and employee_compensation tables.
Histories ==
    {WithIndex(t) : t \in SeqUpTo(JobRows, MaxRows) \cup SeqUpTo(OrgRows, MaxRows)
                            \cup SeqUpTo(CompRows, MaxRows)}

NoTable == <<>>

FilterIdle ==
    /\ data = NoTable
    /\ filters = NoTable
    /\ resolved = NoTable
    /\ filtered_data = NoTable
    /\ pc = "off"

ResolverIdle ==
    /\ history = NoTable
    /\ current = NoTable
    /\ rpc = "off"

TabsIdle ==
    /\ enriched_df = NoTable
    /\ tabs = NoTable

HealthIdle ==
    /\ health_data = NoTable
    /\ health_args = NoTable
    /\ checks = NoTable
    /\ hpc = "off"

SessionIdle ==
    /\ session_state = NoTable
    /\ last_call = NoTable

ExportIdle ==
    /\ export_env = NoTable
    /\ downloads = NoTable

ResolveInit ==
    /\ history \in Histories
    /\ current = NoTable
    /\ rpc = "input"
    /\ FilterIdle
    /\ TabsIdle
    /\ HealthIdle
    /\ SessionIdle
    /\ ExportIdle

\* current_x = x.sort_values("start_date", ascending=False)
\*              .drop_duplicates("employee_id", keep="first")
PointInTime ==
    /\ rpc = "input"
    /\ current' \in CurrentRows(history)
    /\ rpc' = "resolved"
    /\ UNCHANGED <<history, filterVars, tabVars, healthVars, sessionVars, exportVars>>

ResolveNext == PointInTime

SpecResolve == ResolveInit /\ [][ResolveNext]_vars

(* ----------------- specification of the filter engine ----------------- *)

\* The reference tables of the generated data: two job roles, three
\* organization units (one without business_unit) and three locations (one
\* without country).
JobRole ==
    WithIndex(<<[job_id |-> 1, seniority_level |-> 1],
                [job_id |-> 2, seniority_level |-> 4]>>)
OrganizationUnit ==
    WithIndex(<<[org_id |-> 1, business_unit |-> "Engineering"],
                [org_id |-> 2, business_unit |-> "Sales"],
                [org_id |-> 3, business_unit |-> None]>>)
Location ==
    WithIndex(<<[location_id |-> 1, country |-> "Australia"],
                [location_id |-> 2, country |-> "Japan"],
                [location_id |-> 3, country |-> None]>>)

\* An id that no reference table holds (theirs are row numbers).
UnknownId == 1 + Len(JobRole) + Len(OrganizationUnit) + Len(Location)

\* One employee's rows in each assignment table, in table order: no row, or
\* a history whose latest row decides the current value.
JobCareers ==
    {<<>>,
     <<[job_id |-> 1, start_date |-> 2]>>,
     <<[job_id |-> 1, start_date |-> 1], [job_id |-> UnknownId, start_date |-> 2]>>}
OrgCareers ==
    {<<>>,
     <<[org_id |-> 3, start_date |-> 1], [org_id |-> 1, start_date |-> 2]>>,
     <<[org_id |-> 1, start_date |-> 1], [org_id |-> 3, start_date |-> 2]>>}
CompCareers ==
    {<<>>,
     <<[base_salary |-> 1, start_date |-> 1]>>,
     <<[base_salary |-> 1, start_date |-> 1], [base_salary |-> 2, start_date |-> 2]>>}
\* location_id of an employee: with a country, without one, unmatched.
EmployeeLocations == {1, 3, UnknownId}

\* The complete profile (a job with a seniority, an organization unit with a
\* business unit, a compensation record, a location with a country) and the
\* profiles that differ from it in one attribute.
CompleteProfile ==
    [job |-> <<[job_id |-> 1, start_date |-> 2]>>,
     org |-> <<[org_id |-> 3, start_date |-> 1], [org_id |-> 1, start_date |-> 2]>>,
     comp |-> <<[base_salary |-> 1, start_date |-> 1]>>,
     location_id |-> 1]

Profiles ==
    {[CompleteProfile EXCEPT !.job = v] : v \in JobCareers}
        \cup {[CompleteProfile EXCEPT !.org = v] : v \in OrgCareers}
        \cup {[CompleteProfile EXCEPT !.comp = v] : v \in CompCareers}
        \cup {[CompleteProfile EXCEPT !.location_id = v] : v \in EmployeeLocations}

\* The rows of all employees' careers, employee after employee.
CareerTable(profile, field) ==
    WithIndex(Flatten(
        [e \in EmployeeIds |->
            [k \in DOMAIN profile[e][field] |->
                profile[e][field][k] @@ [employee_id |-> e]]]))

\* employee_performance: one review per employee, and one of an employee
\* that the employee table does not hold.
PerformanceTable ==
    WithIndex([e \in 1..(NumEmp + 1) |->
                  [employee_id |-> e, rating |-> 3, review_year |-> 1]])

\* A generated table set; opt are the optional tables it holds.
TableSet(profile, opt) ==
    [name \in EmployeeTables \cup opt \cup ReferenceTables |->
        CASE name = "employee" ->
                WithIndex([e \in EmployeeIds |->
                    [employee_id |-> e, location_id |-> profile[e].location_id]])
          [] name = "employee_job_assignment" -> CareerTable(profile, "job")
          [] name = "employee_org_assignment" -> CareerTable(profile, "org")
          [] name = "employee_compensation" -> CareerTable(profile, "comp")
          [] name = "employee_performance" -> PerformanceTable
          [] name = "organization_unit" -> OrganizationUnit
          [] name = "job_role" -> JobRole
          [] name = "location" -> Location]

TableSets ==
    {TableSet(profile, opt) :
        profile \in [EmployeeIds -> Profiles], opt \in SUBSET OptionalTables}

\* The arguments of get_filtered_data: each predicate absent, the full list
\* the sidebar offers, or a list that leaves values out.
BusinessUnitArgs == {NoArg, Arg(<<"Engineering", "Sales">>), Arg(<<"Sales">>)}
SeniorityArgs == {NoArg, Arg(<<1, 4>>), Arg(<<4>>)}
CountryArgs == {NoArg, Arg(<<"Australia", "Japan">>), Arg(<<"Japan">>)}
SalaryArgs == {NoArg, Arg(<<1, 2>>), Arg(<<2, 2>>)}

FilterArgs ==
    [business_units : BusinessUnitArgs, seniority_levels : SeniorityArgs,
     countries : CountryArgs, salary_range : SalaryArgs]

FilterInit ==
    /\ data \in TableSets
    /\ filters = NoTable
    /\ resolved = NoTable
    /\ filtered_data = NoTable
    /\ pc = "loaded"
    /\ ResolverIdle
    /\ TabsIdle
    /\ HealthIdle
    /\ SessionIdle
    /\ ExportIdle

\* filtered_data = get_filtered_data(data, business_units=..., ...)
ApplyFilters ==
    /\ pc = "loaded"
    /\ \E cj \in CurrentRowsInOrder(data["employee_job_assignment"]),
          co \in CurrentRowsInOrder(data["employee_org_assignment"]) :
        \E f \in FilterArgs :
            \E cc \in CurrentComp(data, f) :
                LET cur == [current_jobs |-> cj, current_orgs |-> co, current_comp |-> cc]
                IN  /\ filters' = f
                    /\ resolved' = cur
                    /\ filtered_data' = GetFilteredData(data, f, cur)
    /\ pc' = "filtered"
    /\ UNCHANGED <<data, resolverVars, tabVars, healthVars, sessionVars, exportVars>>

\* The next script run starts from the cached table set.
Rerun ==
    /\ pc = "filtered"
    /\ filters' = NoTable
    /\ resolved' = NoTable
    /\ filtered_data' = NoTable
    /\ pc' = "loaded"
    /\ UNCHANGED <<data, resolverVars, tabVars, healthVars, sessionVars, exportVars>>

Next == ApplyFilters \/ Rerun

Spec == FilterInit /\ [][Next]_vars

(* ---------------- specification of the sidebar filters ---------------- *)

\* sorted(...) of strings and of numbers.
Alphabetical == <<"Australia", "Engineering", "Japan", "Sales">>
SortedStrings(S) == SelectSeq(Alphabetical, LAMBDA x : x \in S)
SortedNumbers(S) ==
    CHOOSE s \in [1..Cardinality(S) -> S] :
        Range(s) = S /\ \A i, j \in DOMAIN s : i < j => s[i] < s[j]

\* sorted(col.dropna().unique().tolist()) of the three reference columns.
BusinessUnitOptions(d) ==
    SortedStrings({d["organization_unit"][i].business_unit :
                      i \in DOMAIN d["organization_unit"]} \ {None})
CountryOptions(d) ==
    SortedStrings({d["location"][i].country : i \in DOMAIN d["location"]} \ {None})
SeniorityLevels(d) ==
    SortedNumbers({d["job_role"][i].seniority_level : i \in DOMAIN d["job_role"]} \ {NaN})

\* seniority_labels.get(s, str(s)), by the parts " - " separates, and the
\* level read back from a label: int(s.split(" - ")[0]).
SeniorityLabels ==
    [s \in 1..5 |-> CASE s = 1 -> "Entry" [] s = 2 -> "Junior" [] s = 3 -> "Mid"
                       [] s = 4 -> "Senior" [] s = 5 -> "Executive"]
SeniorityOption(s) == IF s \in DOMAIN SeniorityLabels THEN <<s, SeniorityLabels[s]>> ELSE <<s>>
SeniorityOptions(d) ==
    [i \in DOMAIN SeniorityLevels(d) |-> SeniorityOption(SeniorityLevels(d)[i])]
LevelOfOption(option) == option[1]

\* (min_salary, max_salary) over every row of employee_compensation.
SalaryBounds(comp_df) ==
    <<CHOOSE x \in {comp_df[i].base_salary : i \in DOMAIN comp_df} :
          \A i \in DOMAIN comp_df : x <= comp_df[i].base_salary,
      CHOOSE x \in {comp_df[i].base_salary : i \in DOMAIN comp_df} :
          \A i \in DOMAIN comp_df : x >= comp_df[i].base_salary>>

\* What a multiselect may return: all options (its default), none of them,
\* or the last one alone.
Multiselect(options) ==
    {options, <<>>} \cup (IF options = <<>> THEN {} ELSE {<<options[Len(options)]>>})

\* The view filters render_sidebar_filters returns with every widget at its
\* default (lines 119-180).
DefaultFilters(d) ==
    [business_units |-> Arg(BusinessUnitOptions(d)),
     countries |-> Arg(CountryOptions(d)),
     seniority_levels |->
        Arg([i \in DOMAIN SeniorityOptions(d) |-> LevelOfOption(SeniorityOptions(d)[i])]),
     salary_range |-> IF HasTable(d, "employee_compensation")
                      THEN Arg(SalaryBounds(d["employee_compensation"]))
                      ELSE NoArg]

\* The view filters it may return: the salary slider left at its default.
RenderSidebarFilters(d) ==
    {[DefaultFilters(d) EXCEPT
        !.business_units = Arg(bu),
        !.countries = Arg(co),
        !.seniority_levels = Arg([i \in DOMAIN se |-> LevelOfOption(se[i])])] :
        bu \in Multiselect(BusinessUnitOptions(d)),
        co \in {CountryOptions(d), <<>>},
        se \in {SeniorityOptions(d), <<>>}}

\* The cached table sets: a compensation table, where there is one, has a row.
SidebarInit ==
    /\ data \in {d \in TableSets :
                    HasTable(d, "employee_compensation") => d["employee_compensation"] # <<>>}
    /\ filters = NoTable
    /\ resolved = NoTable
    /\ filtered_data = NoTable
    /\ pc = "loaded"
    /\ ResolverIdle
    /\ TabsIdle
    /\ HealthIdle
    /\ SessionIdle
    /\ ExportIdle

\* filters = render_sidebar_filters(data) and
\* filtered_data = get_filtered_data(data, business_units=filters[...], ...)
ApplySidebarFilters ==
    /\ pc = "loaded"
    /\ \E cj \in CurrentRowsInOrder(data["employee_job_assignment"]),
          co \in CurrentRowsInOrder(data["employee_org_assignment"]) :
        \E f \in RenderSidebarFilters(data) :
            \E cc \in CurrentComp(data, f) :
                LET cur == [current_jobs |-> cj, current_orgs |-> co, current_comp |-> cc]
                IN  /\ filters' = f
                    /\ resolved' = cur
                    /\ filtered_data' = GetFilteredData(data, f, cur)
    /\ pc' = "filtered"
    /\ UNCHANGED <<data, resolverVars, tabVars, healthVars, sessionVars, exportVars>>

SidebarNext == ApplySidebarFilters \/ Rerun

SpecSidebar == SidebarInit /\ [][SidebarNext]_vars

(* ----------------------- claims on the resolver ------------------------ *)

RowsOf(t, e) == {i \in DOMAIN t : t[i].employee_id = e}

\* C1: point-in-time resolution returns at most one row per employee, and
\* exactly one row for every employee with at least one history row.
C1_OneRowPerEmployee ==
    rpc = "resolved" =>
        \A e \in EmployeeIds :
            /\ Cardinality(RowsOf(current, e)) <= 1
            /\ RowsOf(history, e) # {} => Cardinality(RowsOf(current, e)) = 1

C1_Witness ==
    /\ rpc = "resolved"
    /\ \E e \in EmployeeIds : Cardinality(RowsOf(history, e)) >= 2
    /\ Len(current) >= 2

\* C2: the row selected as current is a row of the history and no other
\* row of the same employee has a strictly later start_date.
C2_CurrentHasMaxStartDate ==
    rpc = "resolved" =>
        \A i \in DOMAIN current :
            /\ current[i] \in Range(history)
            /\ \A j \in RowsOf(history, current[i].employee_id) :
                  history[j].start_date <= current[i].start_date

C2_Witness ==
    /\ rpc = "resolved"
    /\ \E i, j \in DOMAIN history :
          /\ i < j
          /\ history[i].employee_id = history[j].employee_id
          /\ history[i].start_date < history[j].start_date
          /\ history[j] \in Range(current)

\* C3: among an employee's rows sharing the maximum start_date the resolver
\* selects the one that comes first in the original row order.
C3_TiesKeepFirstRow ==
    rpc = "resolved" =>
        \A i \in DOMAIN current :
            \A j \in RowsOf(history, current[i].employee_id) :
                history[j].start_date = current[i].start_date
                    => current[i].index <= history[j].index

(* --------------------- claims on the filter engine --------------------- *)

EmpIds(t) == {t[i].employee_id : i \in DOMAIN t}

\* The employees get_filtered_data returned.
ResultIds == EmpIds(filtered_data["employee"])

\* The rows of employee e in history t that no row of e is later than.
LatestRows(t, e) ==
    {r \in Range(t) :
        /\ r.employee_id = e
        /\ \A q \in Range(t) : q.employee_id = e => q.start_date <= r.start_date}

\* Employee e has no current business unit: no org assignment, or one to an
\* org_id without a business_unit in organization_unit.
MissingBusinessUnit(e) ==
    \A r \in LatestRows(data["employee_org_assignment"], e) :
        \A u \in Range(data["organization_unit"]) :
            u.org_id = r.org_id => u.business_unit = None

\* Employee e has no current seniority level: no job assignment, or one to a
\* job_id without a seniority_level in job_role.
MissingSeniority(e) ==
    \A r \in LatestRows(data["employee_job_assignment"], e) :
        \A j \in Range(data["job_role"]) :
            j.job_id = r.job_id => j.seniority_level = NaN

\* Employee e has no country: its location_id has no country in location.
MissingCountry(e) ==
    \A r \in Range(data["employee"]) :
        r.employee_id = e =>
            \A l \in Range(data["location"]) :
                l.location_id = r.location_id => l.country = None

NoCompensationRecord(e) ==
    /\ HasTable(data, "employee_compensation")
    /\ e \notin EmpIds(data["employee_compensation"])

\* business_units of the sidebar's default: every business unit of
\* organization_unit (filters.py line 121).
AllBusinessUnits(d) ==
    {d["organization_unit"][i].business_unit : i \in DOMAIN d["organization_unit"]} \ {None}

\* The employees returned for the filters f with the current rows of the call.
IdsFor(f) == EmpIds(GetFilteredData(data, f, resolved)["employee"])

NoFilters ==
    [business_units |-> NoArg, seniority_levels |-> NoArg,
     countries |-> NoArg, salary_range |-> NoArg]

\* C4: filtering by the full set of business units of organization_unit, and
\* by nothing else, returns as many employee rows as the unfiltered table has.
C4_AllBusinessUnitsKeepCount ==
    (/\ pc = "filtered"
     /\ filters.business_units.given
     /\ Range(filters.business_units.v) = AllBusinessUnits(data)
     /\ filters = [NoFilters EXCEPT !.business_units = filters.business_units])
        => Len(filtered_data["employee"]) = Len(data["employee"])

C4_Witness ==
    /\ pc = "filtered"
    /\ filters.business_units.given
    /\ Range(filters.business_units.v) = AllBusinessUnits(data)
    /\ filters = [NoFilters EXCEPT !.business_units = filters.business_units]
    /\ \E e \in EmployeeIds : MissingBusinessUnit(e)
    /\ \E e \in EmployeeIds : ~MissingBusinessUnit(e)
    /\ Len(filtered_data["employee"]) = NumEmp

\* C5: every row of a dependent table of the result belongs to an employee of
\* the result's employee table, and every input row of a surviving employee
\* is kept.
DependentTables ==
    {"employee_job_assignment", "employee_org_assignment",
     "employee_compensation", "employee_performance"}

C5_DependentTablesFollowEmployees ==
    pc = "filtered" =>
        \A name \in DependentTables \cap DOMAIN data :
            /\ name \in DOMAIN filtered_data
            /\ EmpIds(filtered_data[name]) \subseteq ResultIds
            /\ filtered_data[name] =
                  SelectIdx(data[name],
                            {i \in DOMAIN data[name] : data[name][i].employee_id \in ResultIds})

C5_Witness ==
    /\ pc = "filtered"
    /\ DependentTables \subseteq DOMAIN data
    /\ ResultIds # {}
    /\ ResultIds # EmployeeIds
    /\ \E name \in DependentTables :
          /\ filtered_data[name] # <<>>
          /\ Len(filtered_data[name]) < Len(data[name])

\* C6: the reference tables of the result are the input ones, whatever the
\* filters, also when no employee survives.
C6_ReferenceTablesPassThrough ==
    pc = "filtered" =>
        \A name \in ReferenceTables : filtered_data[name] = data[name]

C6_Witness ==
    /\ pc = "filtered"
    /\ ResultIds = {}
    /\ Truthy(filters.business_units)
    /\ Truthy(filters.countries)

\* C7: the employees returned for several predicates are those returned for
\* each of the predicates alone (the employee table restricted to the ids
\* the mask of that one predicate keeps, on the enriched frame of the call).
C7_PredicatesIntersect ==
    pc = "filtered" =>
        LET employees_enriched ==
                EmployeesEnriched(data, resolved.current_jobs, resolved.current_orgs)
            Alone(f) ==
                EmpIds(RestrictTo(data["employee"],
                                  MaskedEmpIds(employees_enriched, data, f, resolved)))
        IN  ResultIds =
                Alone([NoFilters EXCEPT !.business_units = filters.business_units])
                    \cap Alone([NoFilters EXCEPT !.seniority_levels = filters.seniority_levels])
                    \cap Alone([NoFilters EXCEPT !.countries = filters.countries])
                    \cap Alone([NoFilters EXCEPT !.salary_range = filters.salary_range])

C7_Witness ==
    /\ pc = "filtered"
    /\ Truthy(filters.business_units)
    /\ Truthy(filters.seniority_levels)
    /\ Truthy(filters.countries)
    /\ filters.salary_range.given
    /\ HasTable(data, "employee_compensation")
    /\ ResultIds # {}
    /\ ResultIds # EmployeeIds
    /\ IdsFor([NoFilters EXCEPT !.business_units = filters.business_units])
          # IdsFor([NoFilters EXCEPT !.countries = filters.countries])

\* C8: an employee without a current business unit passes the business-unit
\* filter for every non-empty list: it is in the result exactly when it is
\* in the result of the same call without business_units (which, with no
\* other predicate, holds every employee).
C8_MissingBusinessUnitPasses ==
    (pc = "filtered" /\ Truthy(filters.business_units)) =>
        \A e \in EmployeeIds :
            MissingBusinessUnit(e) =>
                (e \in ResultIds <=> e \in IdsFor([filters EXCEPT !.business_units = NoArg]))

C8_Witness ==
    /\ pc = "filtered"
    /\ Truthy(filters.business_units)
    /\ \E e \in EmployeeIds :
          /\ MissingBusinessUnit(e)
          /\ data["employee_org_assignment"] # <<>>
          /\ e \in ResultIds
    /\ \E e \in EmployeeIds : ~MissingBusinessUnit(e) /\ e \notin ResultIds

\* C9: an employee without a country passes the country filter for every
\* non-empty list of countries.
C9_MissingCountryPasses ==
    (pc = "filtered" /\ Truthy(filters.countries)) =>
        \A e \in EmployeeIds :
            MissingCountry(e) =>
                e \in IdsFor([NoFilters EXCEPT !.countries = filters.countries])

\* C10: an employee without a current seniority level is excluded whenever a
\* non-empty seniority_levels list is given, and an employee without a
\* compensation record whenever a salary_range is given and the
\* compensation table is present.
C10_MissingSeniorityOrSalaryExcluded ==
    pc = "filtered" =>
        \A e \in EmployeeIds :
            /\ (Truthy(filters.seniority_levels) /\ MissingSeniority(e)) => e \notin ResultIds
            /\ (filters.salary_range.given /\ NoCompensationRecord(e)) => e \notin ResultIds

C10_Witness ==
    /\ pc = "filtered"
    /\ Truthy(filters.seniority_levels)
    /\ filters.salary_range.given
    /\ \E e \in EmployeeIds : MissingSeniority(e) /\ data["employee_job_assignment"] # <<>>
    /\ \E e \in EmployeeIds : NoCompensationRecord(e)
    /\ ResultIds = {}

\* The filters with None in the place of every empty list.
EmptyAsNone(f) ==
    [k \in DOMAIN f |->
        IF k # "salary_range" /\ f[k].given /\ f[k].v = <<>> THEN NoArg ELSE f[k]]

\* C27: an empty list of business units, seniority levels or countries
\* restricts nothing: the result is that of the call with None in its place,
\* and with the three lists empty and no salary filter every employee row is
\* returned.
C27_EmptyListAsNone ==
    pc = "filtered" =>
        /\ filtered_data = GetFilteredData(data, EmptyAsNone(filters), resolved)
        /\ (EmptyAsNone(filters) = NoFilters)
              => filtered_data["employee"] = data["employee"]

\* Two lists are empty, and employees that the full lists would keep out
\* are returned.
C27_Witness ==
    /\ pc = "filtered"
    /\ filters.seniority_levels = Arg(<<>>)
    /\ filters.countries = Arg(<<>>)
    /\ Truthy(filters.business_units)
    /\ \E e \in ResultIds : MissingSeniority(e)
    /\ \E e \in ResultIds : MissingCountry(e)

\* C28: with every view filter of the sidebar at its default,
\* get_filtered_data returns every row of the employee table.
C28_DefaultFiltersKeepEveryone ==
    (pc = "filtered" /\ filters = DefaultFilters(data))
        => filtered_data["employee"] = data["employee"]

(* ---------------------------- health checks ---------------------------- *)

\* Dates are day numbers in a calendar of 365-day years.
\* date(year, 1, 1), date(year, 12, 31) and the year of a date.
YearStart(year) == 365 * year
YearEnd(year) == 365 * year + 364
YearOf(d) == d \div 365

\* date.today()
Today == YearStart(7) + 100

\* An f-string: its source text and the values it interpolates. A plain
\* string literal interpolates nothing.
FString(text, args) == [text |-> text, args |-> args]
Str(text) == FString(text, <<>>)
\* The string it evaluates to is empty only if it has no literal text.
IsEmptyStr(m) == m.text = ""

\* HealthCheck(name, status, message, details=None)
HealthCheck(name, status, message, details) ==
    [name |-> name, status |-> status, message |-> message, details |-> details]

\* data.get(name, pd.DataFrame())
GetTable(d, name) == IF name \in DOMAIN d THEN d[name] ELSE <<>>

\* col in df.columns, of a frame with rows.
HasColumn(df, col) == df # <<>> /\ col \in DOMAIN df[1]

\* headcount of check_headcount_trend (lines 67-74): hired on or before
\* year_end, and termination_date missing or after year_end.
Headcount(employees_df, year) ==
    Len(SelectSeq(employees_df,
              LAMBDA r : /\ r.hire_date <= YearEnd(year)
                         /\ \/ IsNaNum(r.termination_date)
                            \/ r.termination_date > YearEnd(year)))

\* The loop of check_headcount_trend from year on (lines 64-88).
RECURSIVE HeadcountTrendFrom(_, _, _)
HeadcountTrendFrom(employees_df, year, end_year) ==
    IF year > end_year
    THEN HealthCheck("Headcount Trend", "pass", Str("Headcount positive throughout"), NoArg)
    ELSE LET headcount == Headcount(employees_df, year)
         IN  IF headcount < 0
             THEN HealthCheck("Headcount Trend", "fail",
                              FString("Negative headcount in {year}", <<year>>),
                              Arg(FString("Headcount: {headcount}", <<headcount>>)))
             ELSE IF headcount = 0
             THEN HealthCheck("Headcount Trend", "warning",
                              FString("Zero headcount in {year}", <<year>>),
                              Arg(Str("All employees terminated before this date")))
             ELSE HeadcountTrendFrom(employees_df, year + 1, end_year)

\* Mutant: "headcount <= 0" tested where "headcount < 0" is.
CheckHeadcountTrendFailOnZero(employees_df, start_year, end_year) ==
    IF \E year \in start_year..end_year :
            /\ Headcount(employees_df, year) = 0
            /\ \A y \in start_year..(year - 1) : Headcount(employees_df, y) > 0
    THEN HealthCheck("Headcount Trend", "fail", Str("Negative headcount in {year}"), NoArg)
    ELSE HeadcountTrendFrom(employees_df, start_year, end_year)

\* check_headcount_trend(employees_df, start_year, end_year), when it returns.
CheckHeadcountTrend(employees_df, start_year, end_year) ==
    HeadcountTrendFrom(employees_df, start_year, end_year)

\* check_headcount_trend raises KeyError: line 71 reads the column
\* termination_date in the first pass of the loop, whether or not
\* employees_df.get("termination_date") is None (line 70), since | evaluates
\* both of its operands.
HeadcountTrendRaises(employees_df, start_year, end_year) ==
    /\ start_year <= end_year
    /\ ~HasColumn(employees_df, "termination_date")

\* rates of check_attrition_rate (lines 100-124): (year, terminations,
\* active_start) of the years with employees active at their start; the
\* rate is terminations / active_start.
RECURSIVE AttritionRates(_, _, _)
AttritionRates(employees_df, year, end_year) ==
    IF year > end_year THEN <<>>
    ELSE LET active_start ==
                 Len(SelectSeq(employees_df,
                           LAMBDA r : /\ r.hire_date < YearStart(year)
                                      /\ \/ IsNaNum(r.termination_date)
                                         \/ r.termination_date >= YearStart(year)))
             terminations ==
                 Len(SelectSeq(employees_df,
                           LAMBDA r : /\ ~IsNaNum(r.termination_date)
                                      /\ YearOf(r.termination_date) = year))
             rest == AttritionRates(employees_df, year + 1, end_year)
         IN  IF active_start = 0 THEN rest
             ELSE <<[year |-> year, terminations |-> terminations,
                     active_start |-> active_start]>> \o rest

\* Mutant: "and r > 0" left out of low_years.
CheckAttritionRateZeroIsLow(employees_df, start_year, end_year) ==
    IF ~HasColumn(employees_df, "termination_date")
    THEN HealthCheck("Attrition Rate", "pass", Str("No attrition data (disabled)"), NoArg)
    ELSE LET rates == AttritionRates(employees_df, start_year, end_year)
             high_years == SelectSeq(rates, LAMBDA r : 100 * r.terminations > 30 * r.active_start)
             low_years == SelectSeq(rates, LAMBDA r : 100 * r.terminations < 5 * r.active_start)
         IN  IF rates = <<>>
             THEN HealthCheck("Attrition Rate", "pass", Str("No attrition data available"), NoArg)
             ELSE IF high_years # <<>>
             THEN HealthCheck("Attrition Rate", "warning",
                              FString("High attrition in {len(high_years)} year(s)",
                                      <<Len(high_years)>>), NoArg)
             ELSE IF low_years # <<>>
             THEN HealthCheck("Attrition Rate", "warning",
                              FString("Low attrition in {len(low_years)} year(s)",
                                      <<Len(low_years)>>), NoArg)
             ELSE HealthCheck("Attrition Rate", "pass",
                              FString("Avg rate: {avg_rate:.1%}", rates), NoArg)

\* check_attrition_rate(employees_df, start_year, end_year)
CheckAttritionRate(employees_df, start_year, end_year) ==
    IF ~HasColumn(employees_df, "termination_date")
    THEN HealthCheck("Attrition Rate", "pass", Str("No attrition data (disabled)"), NoArg)
    ELSE LET rates == AttritionRates(employees_df, start_year, end_year)
             \* r > 0.30, and r < 0.05 and r > 0
             high_years == SelectSeq(rates, LAMBDA r : 100 * r.terminations > 30 * r.active_start)
             low_years == SelectSeq(rates, LAMBDA r : /\ 100 * r.terminations < 5 * r.active_start
                                                      /\ r.terminations > 0)
         IN  IF rates = <<>>
             THEN HealthCheck("Attrition Rate", "pass", Str("No attrition data available"), NoArg)
             ELSE IF high_years # <<>>
             THEN HealthCheck("Attrition Rate", "warning",
                              FString("High attrition in {len(high_years)} year(s)",
                                      <<Len(high_years)>>),
                              Arg(FString("Years with >30%: {[y for y, _ in high_years]}",
                                          [i \in DOMAIN high_years |-> high_years[i].year])))
             ELSE IF low_years # <<>>
             THEN HealthCheck("Attrition Rate", "warning",
                              FString("Low attrition in {len(low_years)} year(s)",
                                      <<Len(low_years)>>),
                              Arg(FString("Years with <5%: {[y for y, _ in low_years]}",
                                          [i \in DOMAIN low_years |-> low_years[i].year])))
             ELSE HealthCheck("Attrition Rate", "pass",
                              FString("Avg rate: {avg_rate:.1%}", rates), NoArg)

\* check_bu_distribution(data), given the current org rows.
CheckBuDistribution(d, current_orgs) ==
    LET org_units == GetTable(d, "organization_unit")
        merged == IF HasColumn(current_orgs, "business_unit") THEN current_orgs
                  ELSE LeftMergeObj(current_orgs, org_units, "org_id", "business_unit")
        total == Len(merged)
        bu_counts == [bu \in {merged[i].business_unit : i \in DOMAIN merged} \ {None} |->
                        Len(SelectSeq(merged, LAMBDA r : r.business_unit = bu))]
        \* bu_pcts < 0.05
        low_bus == {bu \in DOMAIN bu_counts : 100 * bu_counts[bu] < 5 * total}
    IN  IF GetTable(d, "employee_org_assignment") = <<>>
        THEN HealthCheck("BU Distribution", "warning", Str("Org data not available"), NoArg)
        ELSE IF /\ ~HasColumn(current_orgs, "business_unit")
                /\ (org_units = <<>> \/ ~HasColumn(current_orgs, "org_id"))
        THEN HealthCheck("BU Distribution", "warning",
                         Str("Business unit data not available"), NoArg)
        ELSE IF total = 0
        THEN HealthCheck("BU Distribution", "warning", Str("No org assignments found"), NoArg)
        ELSE IF low_bus # {}
        THEN HealthCheck("BU Distribution", "warning",
                         FString("{len(low_bus)} BU(s) below 5%", <<Cardinality(low_bus)>>),
                         Arg(FString("Low BUs: {low_bus}", <<low_bus>>)))
        ELSE HealthCheck("BU Distribution", "pass",
                         FString("{len(bu_counts)} BUs well distributed",
                                 <<Cardinality(DOMAIN bu_counts)>>), NoArg)

\* check_seniority_pyramid(data), given the current job rows.
CheckSeniorityPyramid(d, current_jobs) ==
    LET job_roles == GetTable(d, "job_role")
        merged == IF HasColumn(current_jobs, "seniority_level") THEN current_jobs
                  ELSE LeftMerge(current_jobs, job_roles, "job_id", "seniority_level")
        junior == Len(SelectSeq(merged, LAMBDA r : r.seniority_level \in {1, 2}))
        senior == Len(SelectSeq(merged, LAMBDA r : r.seniority_level \in {4, 5}))
    IN  IF GetTable(d, "employee_job_assignment") = <<>> \/ job_roles = <<>>
        THEN HealthCheck("Seniority Pyramid", "warning", Str("Job data not available"), NoArg)
        ELSE IF junior < senior
        THEN HealthCheck("Seniority Pyramid", "warning", Str("Inverted pyramid"),
                         Arg(FString("Junior (L1-L2): {junior}, Senior (L4-L5): {senior}",
                                     <<junior, senior>>)))
        ELSE HealthCheck("Seniority Pyramid", "pass",
                         FString("Junior: {junior}, Senior: {senior}", <<junior, senior>>),
                         NoArg)

\* check_tenure_mix(employees_df); tenure_years = (today - x).days / 365.25.
CheckTenureMix(employees_df) ==
    LET new_hires == Len(SelectSeq(employees_df,
                               LAMBDA r : 100 * (Today - r.hire_date) < 2 * 36525))
        tenured == Len(SelectSeq(employees_df,
                             LAMBDA r : 100 * (Today - r.hire_date) > 5 * 36525))
        total == Len(employees_df)
    IN  IF employees_df = <<>>
        THEN HealthCheck("Tenure Mix", "warning", Str("No employees"), NoArg)
        ELSE IF new_hires = 0
        THEN HealthCheck("Tenure Mix", "warning", Str("No recent hires (<2 years)"),
                         Arg(Str("Consider enabling hiring simulation")))
        ELSE IF tenured = 0
        THEN HealthCheck("Tenure Mix", "warning", Str("No tenured employees (>5 years)"),
                         Arg(Str("Consider increasing years of history")))
        ELSE HealthCheck("Tenure Mix", "pass",
                         FString("New: {new_pct:.0f}%, Tenured: {tenured_pct:.0f}%",
                                 <<new_hires, tenured, total>>), NoArg)

\* The possible values of new_hire_jobs (lines 296-298): the job rows of the
\* employees hired from start_year on, sorted by start_date, first row of
\* each employee.
NewHireJobs(d, start_year) ==
    LET new_hires == SelectSeq(GetTable(d, "employee"),
                               LAMBDA r : YearOf(r.hire_date) >= start_year)
        rows == RestrictTo(GetTable(d, "employee_job_assignment"),
                           {new_hires[i].employee_id : i \in DOMAIN new_hires})
    IN  {AsTable(Range(DropDuplicatesFirst(s))) : s \in SortValues(rows, TRUE)}

\* check_new_hire_seniority(data, start_year, end_year), given new_hire_jobs.
CheckNewHireSeniority(d, start_year, end_year, new_hire_jobs) ==
    LET merged == IF HasColumn(new_hire_jobs, "seniority_level") THEN new_hire_jobs
                  ELSE LeftMerge(new_hire_jobs, GetTable(d, "job_role"),
                                 "job_id", "seniority_level")
        total == Len(merged)
        junior == Len(SelectSeq(merged, LAMBDA r : r.seniority_level \in {1, 2}))
    IN  IF GetTable(d, "employee") = <<>> \/ GetTable(d, "employee_job_assignment") = <<>>
        THEN HealthCheck("New Hire Seniority", "warning", Str("Data not available"), NoArg)
        ELSE IF \A r \in Range(GetTable(d, "employee")) : YearOf(r.hire_date) < start_year
        THEN HealthCheck("New Hire Seniority", "pass", Str("No new hires to check"), NoArg)
        ELSE IF new_hire_jobs = <<>>
        THEN HealthCheck("New Hire Seniority", "warning",
                         Str("No job data for new hires"), NoArg)
        \* junior_pct < 50
        ELSE IF 100 * junior < 50 * total
        THEN HealthCheck("New Hire Seniority", "warning",
                         FString("Only {junior_pct:.0f}% junior hires", <<junior, total>>),
                         Arg(Str("Expected >50% to be L1-L2")))
        ELSE HealthCheck("New Hire Seniority", "pass",
                         FString("{junior_pct:.0f}% junior hires (L1-L2)", <<junior, total>>),
                         NoArg)

\* The outcome of a call: an exception, or the value returned.
Raised(exception) == [raised |-> TRUE, exception |-> exception, checks |-> <<>>]
Returned(cs) == [raised |-> FALSE, exception |-> "", checks |-> cs]

\* The possible outcomes of run_health_checks(data, start_year, end_year,
\* include_hiring), one for each order the sorts may give to equal dates.
RunHealthChecks(d, start_year, end_year, include_hiring) ==
    LET employees_df == GetTable(d, "employee")
    IN  IF employees_df = <<>>
        THEN {Returned(<<HealthCheck("Data Available", "fail",
                                     Str("No employee data found"), NoArg)>>)}
        ELSE IF HeadcountTrendRaises(employees_df, start_year, end_year)
        THEN {Raised("KeyError")}
        ELSE {Returned(
                <<CheckHeadcountTrend(employees_df, start_year, end_year),
                  CheckAttritionRate(employees_df, start_year, end_year),
                  CheckBuDistribution(d, co),
                  CheckSeniorityPyramid(d, cj),
                  CheckTenureMix(employees_df)>>
                \o (IF include_hiring
                    THEN <<CheckNewHireSeniority(d, start_year, end_year, nj)>>
                    ELSE <<>>)) :
                co \in CurrentRowsInOrder(GetTable(d, "employee_org_assignment")),
                cj \in CurrentRowsInOrder(GetTable(d, "employee_job_assignment")),
                nj \in NewHireJobs(d, start_year)}

\* The sidebar element render_health_panel shows for a check (lines 233-241).
SidebarElement(check) ==
    [element |-> IF check.status = "pass" THEN "success"
                 ELSE IF check.status = "warning" THEN "expander"
                 ELSE "error",
     label |-> <<check.name, check.message>>,
     caption |-> IF check.status = "warning" /\ check.details.given
                    /\ ~IsEmptyStr(check.details.v)
                 THEN check.details
                 ELSE NoArg]

\* The possible outcomes of render_health_panel: it returns after showing an
\* element for every check, or the exception of run_health_checks leaves it.
RenderHealthPanelOutcomes(d, start_year, end_year, include_hiring) ==
    {[raised |-> r.raised, exception |-> r.exception, checks |-> r.checks,
      sidebar |-> [i \in DOMAIN r.checks |-> SidebarElement(r.checks[i])],
      returned |-> ~r.raised] :
        r \in RunHealthChecks(d, start_year, end_year, include_hiring)}

(* ------------------ specification of the health checks ----------------- *)

\* start_year and end_year, among them an empty range.
YearRanges == {<<1, 1>>, <<1, 3>>, <<2, 3>>, <<3, 3>>, <<2, 1>>}

HireDates == {YearStart(1), YearEnd(2), YearStart(6)}
TerminationDates == {NaN, YearEnd(2), YearStart(3)}

\* hire_date and termination_date of an employee: never terminated, or
\* terminated after the hire.
EmploymentSpans ==
    {sp \in [hire_date : HireDates, termination_date : TerminationDates] :
        IsNaNum(sp.termination_date) \/ sp.termination_date >= sp.hire_date}

\* The employee tables: every employee with a span, with or without the
\* column termination_date (left out by a generation without attrition), and
\* the table no employee is left in.
HealthEmployees ==
    {WithIndex([e \in EmployeeIds |-> [employee_id |-> e] @@ sp[e]]) :
        sp \in [EmployeeIds -> EmploymentSpans]}
    \cup {WithIndex([e \in EmployeeIds |-> [employee_id |-> e, hire_date |-> hd[e]]]) :
            hd \in [EmployeeIds -> HireDates]}
    \cup {<<>>}

\* Assignments of the employees: all junior in a business unit, all senior,
\* none with a job or an organization unit, or one junior, one senior and
\* the others without a job.
HealthProfiles ==
    {[e \in EmployeeIds |-> p] :
        p \in {CompleteProfile,
               [CompleteProfile EXCEPT !.job = <<[job_id |-> 2, start_date |-> 1]>>],
               [CompleteProfile EXCEPT !.job = <<>>, !.org = <<>>]}}
    \cup {[e \in EmployeeIds |->
            [CompleteProfile EXCEPT
                !.job = IF e = 1 THEN <<[job_id |-> 1, start_date |-> 1]>>
                        ELSE IF e = 2 THEN <<[job_id |-> 2, start_date |-> 1]>>
                        ELSE <<>>]]}

HealthTableSets ==
    {[TableSet(profile, {}) EXCEPT !["employee"] = employees] :
        profile \in HealthProfiles, employees \in HealthEmployees}

HealthInit ==
    /\ health_data \in HealthTableSets
    /\ health_args \in [years : YearRanges, include_hiring : BOOLEAN]
    /\ checks = NoTable
    /\ hpc = "input"
    /\ ResolverIdle
    /\ FilterIdle
    /\ TabsIdle
    /\ SessionIdle
    /\ ExportIdle

\* render_health_panel(filtered_data, start_year, end_year, include_hiring)
RenderHealthPanel ==
    /\ hpc = "input"
    /\ checks' \in RenderHealthPanelOutcomes(health_data, health_args.years[1],
                                             health_args.years[2],
                                             health_args.include_hiring)
    /\ hpc' = "rendered"
    /\ UNCHANGED <<health_data, health_args, resolverVars, filterVars, tabVars,
                   sessionVars, exportVars>>

HealthNext == RenderHealthPanel

SpecHealth == HealthInit /\ [][HealthNext]_vars

(* ---------------- specification of the attrition check ----------------- *)

\* An employee table by its cohorts: stayers employees hired in year 0 and
\* never terminated, and leavers[y] more, hired in year 0 and terminated in
\* year y.
CohortTable(stayers, leavers) ==
    LET rows == [i \in 1..stayers |->
                    [hire_date |-> YearStart(0) + 10, termination_date |-> NaN]]
                \o Flatten([y \in DOMAIN leavers |->
                        [i \in 1..leavers[y] |->
                            [hire_date |-> YearStart(0) + 10,
                             termination_date |-> YearStart(y) + 10]]])
    IN  WithIndex([i \in DOMAIN rows |-> rows[i] @@ [employee_id |-> i]])

\* Sizes that give annual rates of 0, below 5%, between 5% and 30%, and
\* above 30%.
StayerCounts == {4, 20, 40}
LeaverCounts == {0, 1, 2, 10}

\* The employee tables of the attrition check, and one of a generation
\* without attrition (no column termination_date).
AttritionEmployees ==
    {CohortTable(n, <<k, m>>) : n \in StayerCounts, k \in LeaverCounts, m \in LeaverCounts}
        \cup {WithIndex([i \in 1..2 |-> [employee_id |-> i, hire_date |-> YearStart(0) + 10]])}

\* start_year and end_year: year 0 has no employee active at its start.
AttritionYearRanges == {<<0, 0>>, <<1, 1>>, <<1, 2>>, <<2, 2>>, <<3, 3>>}

AttritionInit ==
    /\ health_data \in {[employee |-> t] : t \in AttritionEmployees}
    /\ health_args \in [years : AttritionYearRanges, include_hiring : {FALSE}]
    /\ checks = NoTable
    /\ hpc = "input"
    /\ ResolverIdle
    /\ FilterIdle
    /\ TabsIdle
    /\ SessionIdle
    /\ ExportIdle

\* check_attrition_rate(employees_df, start_year, end_year)
CallCheckAttritionRate ==
    /\ hpc = "input"
    /\ checks' = CheckAttritionRate(health_data["employee"], health_args.years[1],
                                    health_args.years[2])
    /\ hpc' = "checked"
    /\ UNCHANGED <<health_data, health_args, resolverVars, filterVars, tabVars,
                   sessionVars, exportVars>>

AttritionNext == CallCheckAttritionRate

SpecAttrition == AttritionInit /\ [][AttritionNext]_vars

(* --------------------- claims on the health checks --------------------- *)

\* The HealthCheck of that name in the outcome, if any.
ChecksNamed(name) == {c \in Range(checks.checks) : c.name = name}

\* C11: check_headcount_trend returns status "fail" if and only if the
\* headcount it computes is negative for some year of start_year..end_year.
C11_HeadcountFailIffNegative ==
    hpc = "rendered" =>
        \A c \in ChecksNamed("Headcount Trend") :
            c.status = "fail" <=>
                \E year \in health_args.years[1]..health_args.years[2] :
                    Headcount(health_data["employee"], year) < 0

C11_Witness ==
    /\ hpc = "rendered"
    /\ \E c \in ChecksNamed("Headcount Trend") : c.status = "warning"
    /\ \E year \in health_args.years[1]..health_args.years[2] :
          Headcount(health_data["employee"], year) = 0
    /\ \E year \in health_args.years[1]..health_args.years[2] :
          Headcount(health_data["employee"], year) > 0

\* C12: every HealthCheck run_health_checks returns has a status among pass,
\* warning and fail and a non-empty message, and render_health_panel shows
\* an element for each of them and returns.
C12_ChecksValidAndPanelReturns ==
    hpc = "rendered" =>
        /\ checks.returned
        /\ Len(checks.sidebar) = Len(checks.checks)
        /\ \A c \in Range(checks.checks) :
              /\ c.status \in {"pass", "warning", "fail"}
              /\ ~IsEmptyStr(c.message)

\* The employees whose current job, the latest row of their job history, is
\* at one of the seniority levels.
CurrentlyAt(levels) ==
    {e \in EmployeeIds :
        \E r \in LatestRows(health_data["employee_job_assignment"], e) :
            \E j \in Range(health_data["job_role"]) :
                j.job_id = r.job_id /\ j.seniority_level \in levels}

\* C24: with job data available, check_seniority_pyramid returns "pass" if
\* the employees currently at level 1 or 2 are more than those at level 4 or
\* 5, and "warning" otherwise.
C24_PassIffMoreJuniorThanSenior ==
    (/\ hpc = "rendered"
     /\ health_data["employee_job_assignment"] # <<>>
     /\ health_data["job_role"] # <<>>)
        => \A c \in ChecksNamed("Seniority Pyramid") :
              c.status = (IF Cardinality(CurrentlyAt({1, 2})) > Cardinality(CurrentlyAt({4, 5}))
                          THEN "pass" ELSE "warning")

\* C25: run_health_checks returns the single check "Data Available", a fail,
\* for an empty employee table, and otherwise Headcount Trend, Attrition
\* Rate, BU Distribution, Seniority Pyramid and Tenure Mix in that order,
\* followed by New Hire Seniority exactly when include_hiring is true.
C25_ChecksReturnedInOrder ==
    hpc = "rendered" =>
        /\ ~checks.raised
        /\ [i \in DOMAIN checks.checks |-> checks.checks[i].name] =
              (IF GetTable(health_data, "employee") = <<>>
               THEN <<"Data Available">>
               ELSE <<"Headcount Trend", "Attrition Rate", "BU Distribution",
                      "Seniority Pyramid", "Tenure Mix">>
                    \o (IF health_args.include_hiring
                        THEN <<"New Hire Seniority">> ELSE <<>>))
        /\ GetTable(health_data, "employee") = <<>> => checks.checks[1].status = "fail"

\* The employees hired on or before the end of the year.
HiredBy(year) ==
    {r \in Range(health_data["employee"]) : r.hire_date <= YearEnd(year)}

\* C26: for an employee table without the column termination_date,
\* check_headcount_trend raises nothing and returns the verdict of a table
\* in which nobody was terminated (a warning for a year by whose end nobody
\* was hired, a pass otherwise), and check_attrition_rate returns "pass".
C26_HeadcountWithoutTerminationColumn ==
    (/\ hpc = "rendered"
     /\ health_data["employee"] # <<>>
     /\ ~HasColumn(health_data["employee"], "termination_date"))
        => /\ ~checks.raised
           /\ \E c \in ChecksNamed("Headcount Trend") :
                 c.status =
                    (IF \E year \in health_args.years[1]..health_args.years[2] :
                            HiredBy(year) = {}
                     THEN "warning" ELSE "pass")
           /\ \E c \in ChecksNamed("Attrition Rate") : c.status = "pass"

\* The annual rates check_attrition_rate computes for the input.
ComputedRates ==
    IF HasColumn(health_data["employee"], "termination_date")
    THEN Range(AttritionRates(health_data["employee"], health_args.years[1],
                              health_args.years[2]))
    ELSE {}

\* rate > 30%, rate < 5%.
Above30(r) == 100 * r.terminations > 30 * r.active_start
Below5(r) == 100 * r.terminations < 5 * r.active_start

PyNone == <<>>
Val(x) == <<x>>

\* A float, by the number of its hundredths: 0.12 is Hundredths(12), and
\* pct / 100 of an integer percentage pct is Hundredths(pct).
Hundredths(n) == [hundredths |-> n]

\* The parameters of get_hr_data and of force_regenerate (lines 10-18 and
\* 81-89), each with the session key its value is stored under (lines 38-44).
StoredKey ==
    [n_employees |-> "hr_data_n_employees",
     seed |-> "hr_data_seed",
     include_attrition |-> "hr_data_include_attrition",
     attrition_rate |-> "hr_data_attrition_rate",
     noise_std |-> "hr_data_noise_std",
     start_date |-> "hr_data_start_date",
     end_date |-> "hr_data_end_date"]

Parameters == DOMAIN StoredKey

\* keys_to_clear of force_regenerate: the cache key and the stored keys.
CacheKeys == {"hr_data"} \cup {StoredKey[p] : p \in Parameters}

\* The defaults of the parameters that have one.
Defaults ==
    [seed |-> PyNone,
     include_attrition |-> Val(TRUE),
     attrition_rate |-> Val(Hundredths(12)),
     noise_std |-> Val(Hundredths(20)),
     start_date |-> PyNone,
     end_date |-> PyNone]

\* Python binds the arguments of a call before the body runs: a keyword
\* that is no parameter, or a parameter without default left out, raises
\* TypeError.
Accepts(kwargs) ==
    /\ DOMAIN kwargs \subseteq Parameters
    /\ Parameters \ DOMAIN Defaults \subseteq DOMAIN kwargs

\* The parameters of a call, defaults filled in.
Bind(kwargs) == kwargs @@ Defaults

\* st.session_state.get(key)
Get(ss, key) == IF key \in DOMAIN ss THEN ss[key] ELSE PyNone

\* Mutant: the seed left out of the comparison.
NeedsRegenerationNoSeed(ss, args) ==
    \/ "hr_data" \notin DOMAIN ss
    \/ \E p \in Parameters \ {"seed"} : Get(ss, StoredKey[p]) # args[p]

\* needs_regeneration (lines 47-56)
NeedsRegeneration(ss, args) ==
    \/ "hr_data" \notin DOMAIN ss
    \/ \E p \in Parameters : Get(ss, StoredKey[p]) # args[p]

\* What generate_hr_data returns: the generator is an imported package, its
\* table set is known here by the arguments of the call and by the random
\* draw the call made.
GenerateHrData(kwargs, draw) == [generated_with |-> kwargs, draw |-> draw]

\* The keyword arguments get_hr_data passes to generate_hr_data (lines 60-68).
GeneratorKwargs(args) == [p \in Parameters |-> args[p]]

\* Mutant: a parameter already stored is not overwritten.
StoreKeepsOldParameters(ss, args, generated) ==
    ("hr_data" :> Val(generated)) @@ ss
        @@ [k \in CacheKeys \ {"hr_data"} |->
                args[CHOOSE p \in Parameters : StoredKey[p] = k]]

\* The session state after lines 69-76.
Store(ss, args, generated) ==
    [k \in CacheKeys |->
        IF k = "hr_data" THEN Val(generated)
        ELSE args[CHOOSE p \in Parameters : StoredKey[p] = k]] @@ ss

\* The outcome of a call that raised before changing anything.
RaisedIn(ss, exception) ==
    [raised |-> exception, ss |-> ss, generator_calls |-> <<>>,
     body |-> <<>>, returned |-> PyNone]

\* get_hr_data(**kwargs) in session state ss: the exception raised or "",
\* the session state left, the calls of the generator made, the session
\* state and the parameters its body started with, and the value returned.
GetHrData(ss, kwargs, draw) ==
    IF ~Accepts(kwargs) THEN RaisedIn(ss, "TypeError")
    ELSE LET args == Bind(kwargs)
             needs_regeneration == NeedsRegeneration(ss, args)
             after == IF needs_regeneration
                      THEN Store(ss, args, GenerateHrData(GeneratorKwargs(args), draw))
                      ELSE ss
         IN  [raised |-> "", ss |-> after,
              generator_calls |-> IF needs_regeneration
                                  THEN <<GeneratorKwargs(args)>> ELSE <<>>,
              body |-> <<[ss |-> ss, args |-> args]>>,
              returned |-> after["hr_data"]]

\* Mutant: the cache left as it is before get_hr_data is called.
ForceRegenerateKeepsCache(ss, kwargs, draw) ==
    IF ~Accepts(kwargs) THEN RaisedIn(ss, "TypeError")
    ELSE GetHrData(ss, Bind(kwargs), draw)

\* force_regenerate(**kwargs): the keys cleared (lines 106-118), then
\* get_hr_data with every parameter (lines 120-128).
ForceRegenerate(ss, kwargs, draw) ==
    IF ~Accepts(kwargs) THEN RaisedIn(ss, "TypeError")
    ELSE GetHrData([k \in DOMAIN ss \ CacheKeys |-> ss[k]], Bind(kwargs), draw)

\* The pending settings main initialises (app.py lines 30-45).
PendingDefaults ==
    [n_employees |-> Val(100),
     years_of_history |-> Val(5),
     enable_attrition |-> Val(TRUE),
     attrition_rate_pct |-> Val(12),
     noise_std |-> Val(Hundredths(20)),
     enable_hiring |-> Val(FALSE),
     growth_rate_pct |-> Val(5),
     backfill_rate_pct |-> Val(85)]

\* date(end_date.year - years, 1, 1)
StartDate(end_date, years) == YearStart(YearOf(end_date) - years)

\* The arguments of the first load (app.py lines 50-62).
FirstLoadKwargs(ss) ==
    [n_employees |-> ss["n_employees"],
     include_attrition |-> ss["enable_attrition"],
     attrition_rate |-> Val(Hundredths(ss["attrition_rate_pct"][1])),
     noise_std |-> ss["noise_std"],
     start_date |-> Val(StartDate(Today, ss["years_of_history"][1])),
     end_date |-> Val(Today),
     include_hiring |-> ss["enable_hiring"],
     base_growth_rate |-> Val(Hundredths(ss["growth_rate_pct"][1])),
     backfill_rate |-> Val(Hundredths(ss["backfill_rate_pct"][1]))]

\* The pending settings main stores from the sidebar (app.py lines 70-77).
PendingSettings(widgets) ==
    [n_employees |-> Val(widgets.n_employees),
     years_of_history |-> Val(widgets.years_of_history),
     enable_attrition |-> Val(widgets.enable_attrition),
     attrition_rate_pct |-> Val(widgets.attrition_rate),
     noise_std |-> Val(widgets.noise_std),
     enable_hiring |-> Val(widgets.enable_hiring),
     growth_rate_pct |-> Val(widgets.growth_rate),
     backfill_rate_pct |-> Val(widgets.backfill_rate)]

\* The arguments of the regeneration (app.py lines 81-94).
RegenerateKwargs(widgets) ==
    [n_employees |-> Val(widgets.n_employees),
     include_attrition |-> Val(widgets.enable_attrition),
     attrition_rate |-> Val(Hundredths(widgets.attrition_rate)),
     noise_std |-> Val(widgets.noise_std),
     start_date |-> Val(StartDate(Today, widgets.years_of_history)),
     end_date |-> Val(Today),
     include_hiring |-> Val(widgets.enable_hiring),
     base_growth_rate |-> Val(Hundredths(widgets.growth_rate)),
     backfill_rate |-> Val(Hundredths(widgets.backfill_rate))]

\* Mutant: the data fetched in every run with the sidebar's settings, by
\* the parameters get_hr_data has.
MainGetsDataEveryRun(ss, widgets, draw) ==
    LET pending == PendingSettings(widgets) @@ ss @@ PendingDefaults
        kwargs == RegenerateKwargs(widgets)
    IN  GetHrData(pending, [p \in DOMAIN kwargs \cap Parameters |-> kwargs[p]], draw)

\* One run of main up to line 95, from the session state ss with the
\* sidebar showing widgets: the defaults (lines 30-45), the first load
\* (lines 49-62) or the cached data (line 64), the pending settings (lines
\* 70-77) and the regeneration on a click (lines 80-95).
Main(ss, widgets, draw) ==
    LET defaults == ss @@ PendingDefaults
        first_load == GetHrData(defaults, FirstLoadKwargs(defaults), draw)
        loaded == IF "hr_data" \notin DOMAIN ss THEN first_load.ss ELSE defaults
        pending == PendingSettings(widgets) @@ loaded
    IN  IF "hr_data" \notin DOMAIN ss /\ first_load.raised # ""
        THEN first_load
        ELSE IF widgets.regenerate
        THEN ForceRegenerate(pending, RegenerateKwargs(widgets), draw)
        ELSE [raised |-> "", ss |-> pending, generator_calls |-> <<>>,
              body |-> <<>>, returned |-> pending["hr_data"]]

\* st.session_state.get(key, default): the default only for a key not set.
GetOr(ss, key, default) == IF key \in DOMAIN ss THEN ss[key] ELSE default

\* What main reads back after the data step (app.py lines 99-101).
ReadBack(ss) ==
    [start_date |-> GetOr(ss, "hr_data_start_date", Val(YearStart(YearOf(Today)))),
     end_date |-> GetOr(ss, "hr_data_end_date", Val(Today)),
     data_include_hiring |-> GetOr(ss, "hr_data_include_hiring", Val(FALSE))]

(* -------------------- specification of the session --------------------- *)

\* The random draws of a generation.
Draws == {1, 2}

\* Arguments of direct calls: n_employees, and seed and include_attrition
\* given or left to their defaults.
CallKwargs ==
    {[p \in {"n_employees"} \cup given |->
        CASE p = "n_employees" -> Val(n)
          [] p = "seed" -> Val(42)
          [] p = "include_attrition" -> Val(FALSE)] :
        n \in {100, 200}, given \in SUBSET {"seed", "include_attrition"}}

\* What the sidebar returns (filters.py lines 36-114): growth_rate and
\* backfill_rate are 5 and 85 unless hiring is enabled.
Widgets ==
    {w \in [n_employees : {100, 200}, years_of_history : {5},
            enable_attrition : BOOLEAN, attrition_rate : {12},
            noise_std : {Hundredths(20)}, enable_hiring : BOOLEAN,
            growth_rate : {5, 10}, backfill_rate : {85}, regenerate : BOOLEAN] :
        w.growth_rate = 10 => (w.enable_hiring /\ w.n_employees = 200)}

NoCall == [op |-> "none"]

\* The record of a call: what was called, with what, in which session
\* state, and its outcome.
Called(op, input, before, outcome) ==
    [op |-> op, input |-> input, before |-> before, raised |-> outcome.raised,
     generator_calls |-> outcome.generator_calls, body |-> outcome.body,
     returned |-> outcome.returned]

SessionInit ==
    /\ session_state = <<>>
    /\ last_call = NoCall
    /\ ResolverIdle
    /\ FilterIdle
    /\ TabsIdle
    /\ HealthIdle
    /\ ExportIdle

\* get_hr_data(n_employees, ...) called with arguments it accepts.
CallGetHrData ==
    \E kwargs \in CallKwargs, draw \in Draws :
        LET outcome == GetHrData(session_state, kwargs, draw)
        IN  /\ session_state' = outcome.ss
            /\ last_call' = Called("get_hr_data", kwargs, session_state, outcome)
            /\ UNCHANGED <<resolverVars, filterVars, tabVars, healthVars, exportVars>>

\* force_regenerate(n_employees, ...) called with arguments it accepts.
CallForceRegenerate ==
    \E kwargs \in CallKwargs, draw \in Draws :
        LET outcome == ForceRegenerate(session_state, kwargs, draw)
        IN  /\ session_state' = outcome.ss
            /\ last_call' = Called("force_regenerate", kwargs, session_state, outcome)
            /\ UNCHANGED <<resolverVars, filterVars, tabVars, healthVars, exportVars>>

\* One script run of main: a page load or a widget interaction.
RunMain ==
    \E widgets \in Widgets, draw \in Draws :
        LET outcome == Main(session_state, widgets, draw)
        IN  /\ session_state' = outcome.ss
            /\ last_call' = Called("main", widgets, session_state, outcome)
            /\ UNCHANGED <<resolverVars, filterVars, tabVars, healthVars, exportVars>>

SessionNext == CallGetHrData \/ CallForceRegenerate \/ RunMain

SpecSession == SessionInit /\ [][SessionNext]_vars

(* ------------------------ claims on the session ------------------------ *)

\* C13: get_hr_data calls the generator if and only if no data is cached or
\* a parameter differs from the value stored with the cached data; otherwise
\* it leaves the session state as it is and returns the cached table set.
C13_GeneratesIffStale ==
    \A b \in Range(IF last_call.op = "none" THEN <<>> ELSE last_call.body) :
        LET stale == \/ "hr_data" \notin DOMAIN b.ss
                     \/ \E p \in Parameters : b.ss[StoredKey[p]] # b.args[p]
        IN  /\ Len(last_call.generator_calls) = (IF stale THEN 1 ELSE 0)
            /\ ~stale => /\ session_state = b.ss
                         /\ last_call.returned = b.ss["hr_data"]

C13_Witness ==
    /\ last_call.op = "get_hr_data"
    /\ "hr_data" \in DOMAIN last_call.before
    /\ last_call.generator_calls = <<>>
    /\ session_state = last_call.before
    /\ last_call.returned = session_state["hr_data"]

\* A run of main that has to obtain data: the first load, or a click on
\* "Regenerate Data".
ObtainsData ==
    /\ last_call.op = "main"
    /\ ("hr_data" \notin DOMAIN last_call.before \/ last_call.input.regenerate)

\* C17: a run of main that obtains data raises nothing and leaves a table
\* set cached in the session state.
C17_MainObtainsData ==
    ObtainsData => (last_call.raised = "" /\ "hr_data" \in DOMAIN session_state)

\* C18: a run of main without a click on "Regenerate Data", from a session
\* with cached data, leaves hr_data and the stored parameters as they were.
C18_NoClickKeepsCache ==
    (/\ last_call.op = "main"
     /\ "hr_data" \in DOMAIN last_call.before
     /\ ~last_call.input.regenerate)
        => /\ CacheKeys \subseteq DOMAIN session_state
           /\ \A k \in CacheKeys : session_state[k] = last_call.before[k]
           /\ last_call.generator_calls = <<>>

C18_Witness ==
    /\ last_call.op = "main"
    /\ "hr_data" \in DOMAIN last_call.before
    /\ ~last_call.input.regenerate
    /\ session_state["n_employees"] # session_state["hr_data_n_employees"]
    /\ session_state["enable_attrition"] # session_state["hr_data_include_attrition"]
    /\ session_state["enable_hiring"] = Val(TRUE)
    /\ session_state["hr_data"] = last_call.before["hr_data"]

\* C20: when main obtains data, get_hr_data or force_regenerate accepts the
\* call and the generator is called with include_hiring, growth_rate and
\* backfill_rate as the sidebar has them.
C20_HiringParametersForwarded ==
    ObtainsData =>
        /\ last_call.raised # "TypeError"
        /\ \E i \in DOMAIN last_call.generator_calls :
              LET call == last_call.generator_calls[i]
              IN  /\ {"include_hiring", "growth_rate", "backfill_rate"} \subseteq DOMAIN call
                  /\ call["include_hiring"] = session_state["enable_hiring"]
                  /\ call["growth_rate"] =
                        Val(Hundredths(session_state["growth_rate_pct"][1]))
                  /\ call["backfill_rate"] =
                        Val(Hundredths(session_state["backfill_rate_pct"][1]))

\* C21: a call of force_regenerate calls the generator exactly once, with the
\* parameters of the call, whatever the session state held before; the
\* session state then holds the table set of that generation and, under the
\* stored keys, the parameters of the call.
C21_ForceRegenerateAlwaysGenerates ==
    last_call.op = "force_regenerate" =>
        LET args == Bind(last_call.input)
        IN  /\ last_call.raised = ""
            /\ last_call.generator_calls = <<GeneratorKwargs(args)>>
            /\ CacheKeys \subseteq DOMAIN session_state
            /\ \E draw \in Draws :
                  session_state["hr_data"] =
                      Val(GenerateHrData(last_call.generator_calls[1], draw))
            /\ last_call.returned = session_state["hr_data"]
            /\ \A p \in Parameters : session_state[StoredKey[p]] = args[p]

\* The call found data cached under the very parameters it was made with,
\* and left the table set of another generation.
C21_Witness ==
    /\ last_call.op = "force_regenerate"
    /\ "hr_data" \in DOMAIN last_call.before
    /\ \A p \in Parameters :
          last_call.before[StoredKey[p]] = Bind(last_call.input)[p]
    /\ Len(last_call.generator_calls) = 1
    /\ session_state["hr_data"] # last_call.before["hr_data"]

\* C29: in every session state reached, hr_data is present exactly when the
\* seven stored parameter keys are, and the stored parameters are the
\* arguments of the generator call that produced the cached table set.
C29_CacheConsistent ==
    /\ "hr_data" \in DOMAIN session_state
          <=> \A p \in Parameters : StoredKey[p] \in DOMAIN session_state
    /\ "hr_data" \in DOMAIN session_state
          <=> \E p \in Parameters : StoredKey[p] \in DOMAIN session_state
    /\ "hr_data" \in DOMAIN session_state =>
          [p \in Parameters |-> session_state[StoredKey[p]]]
              = session_state["hr_data"][1].generated_with

\* get_hr_data replaced a table set cached under other parameters.
C29_Witness ==
    /\ last_call.op = "get_hr_data"
    /\ "hr_data" \in DOMAIN last_call.before
    /\ Len(last_call.generator_calls) = 1
    /\ \E p \in Parameters :
          session_state[StoredKey[p]] # last_call.before[StoredKey[p]]
    /\ session_state["hr_data"][1].generated_with
          # last_call.before["hr_data"][1].generated_with

\* The generator call passed include_hiring=True.
GeneratedWithHiring(generated) ==
    /\ "include_hiring" \in DOMAIN generated.generated_with
    /\ generated.generated_with["include_hiring"] = Val(TRUE)

\* C22: a run of main gets through the data step and then reads back the
\* start date, the end date and include_hiring the cached table set was
\* generated with: data_include_hiring is true exactly when the generator
\* was called with hiring enabled.
C22_ReadBackMatchesGeneration ==
    last_call.op = "main" =>
        /\ last_call.raised = ""
        /\ "hr_data" \in DOMAIN session_state
        /\ LET generated == session_state["hr_data"][1]
               read == ReadBack(session_state)
           IN  /\ read.start_date = generated.generated_with["start_date"]
               /\ read.end_date = generated.generated_with["end_date"]
               /\ read.data_include_hiring = Val(TRUE)
                     <=> GeneratedWithHiring(generated)

(* ------------------------------- export -------------------------------- *)

\* The bytes of an encoded table: the encoding and the rows encoded, without
\* the index (index=False).
Encoded(format, df) == [format |-> format, rows |-> [i \in DOMAIN df |-> Columns(df[i])]]

\* export_to_csv(df)
ExportToCsv(df) == [raised |-> "", bytes |-> Encoded("csv", df)]

\* export_to_parquet(df) of the table called name: ImportError without
\* pyarrow (lines 44-45), the encoder's exception when df.to_parquet raises
\* (line 48), the Parquet bytes otherwise.
ExportToParquet(env, name, df) ==
    IF ~env.PARQUET_AVAILABLE THEN [raised |-> "ImportError", bytes |-> <<>>]
    ELSE IF name \in env.encoder_fails THEN [raised |-> "ArrowInvalid", bytes |-> <<>>]
    ELSE [raised |-> "", bytes |-> Encoded("parquet", df)]

\* export_func(df)
ExportFunc(env, format, name, df) ==
    IF format = "csv" THEN ExportToCsv(df) ELSE ExportToParquet(env, name, df)

\* get_download_data(data, format): each table by export_func, by
\* export_to_csv when that raises (filters.py lines 257-267).
GetDownloadData(env, d, format) ==
    [raised |-> "",
     files |-> [name \in DOMAIN d |->
                  LET file == ExportFunc(env, format, name, d[name])
                  IN  IF file.raised = "" THEN file.bytes ELSE ExportToCsv(d[name]).bytes]]

\* create_zip_download(data, format): the archive with one member per table,
\* or the exception of the first export_func call that raises, which nothing
\* catches (export.py lines 66-75).
CreateZipDownload(env, d, format) ==
    LET extension == IF format = "csv" THEN ".csv" ELSE ".parquet"
        failed == {name \in DOMAIN d : ExportFunc(env, format, name, d[name]).raised # ""}
    IN  IF failed # {}
        THEN {[raised |-> ExportFunc(env, format, name, d[name]).raised, files |-> <<>>] :
                name \in failed}
        ELSE {[raised |-> "",
               files |-> [name \in DOMAIN d |->
                            [member |-> <<name, extension>>,
                             file_data |-> ExportFunc(env, format, name, d[name]).bytes]]]}

\* export_format of render_download_buttons (filters.py lines 281-293):
\* "Parquet (Recommended)" is offered only when PARQUET_AVAILABLE.
ExportFormats(env) == IF env.PARQUET_AVAILABLE THEN {"csv", "parquet"} ELSE {"csv"}

\* The download buttons of the "Individual Tables" expander (filters.py
\* lines 320-331): file name, MIME type and bytes of each table.
IndividualButtons(env, d, export_format) ==
    LET extension == IF export_format = "csv" THEN "csv" ELSE "parquet"
        downloaded == GetDownloadData(env, d, export_format).files
        mime_type == IF export_format = "csv" THEN "text/csv" ELSE "application/octet-stream"
    IN  [name \in DOMAIN downloaded |->
            [file_name |-> <<name, extension>>, mime |-> mime_type,
             data |-> downloaded[name]]]

(* --------------------- specification of the export --------------------- *)

\* The table sets exported: with and without the optional tables.
ExportTableSets ==
    {TableSet([e \in EmployeeIds |-> CompleteProfile], opt) : opt \in SUBSET OptionalTables}

\* The encoder: pyarrow installed or not, and the tables df.to_parquet
\* raises on (none, or one).
ExportEnvs ==
    UNION {[data : {d}, PARQUET_AVAILABLE : BOOLEAN,
            encoder_fails : {{}} \cup {{name} : name \in DOMAIN d}] : d \in ExportTableSets}

NoExport == [op |-> "none"]

ExportInit ==
    /\ export_env \in ExportEnvs
    /\ downloads = NoExport
    /\ ResolverIdle
    /\ FilterIdle
    /\ TabsIdle
    /\ HealthIdle
    /\ SessionIdle

\* get_download_data(data, format)
CallGetDownloadData ==
    /\ \E format \in {"csv", "parquet"} :
          LET outcome == GetDownloadData(export_env, export_env.data, format)
          IN  downloads' = [op |-> "get_download_data", format |-> format,
                            raised |-> outcome.raised, files |-> outcome.files]
    /\ UNCHANGED <<export_env, resolverVars, filterVars, tabVars, healthVars, sessionVars>>

\* create_zip_download(data, format)
CallCreateZipDownload ==
    /\ \E format \in {"csv", "parquet"} :
          \E outcome \in CreateZipDownload(export_env, export_env.data, format) :
              downloads' = [op |-> "create_zip_download", format |-> format,
                            raised |-> outcome.raised, files |-> outcome.files]
    /\ UNCHANGED <<export_env, resolverVars, filterVars, tabVars, healthVars, sessionVars>>

\* render_download_buttons(data): the archive of the "Download All" button
\* (line 308), then the individual buttons (lines 320-331).
RenderDownloadButtons ==
    /\ \E export_format \in ExportFormats(export_env) :
          \E zip_data \in CreateZipDownload(export_env, export_env.data, export_format) :
              downloads' = [op |-> "render_download_buttons", format |-> export_format,
                            raised |-> zip_data.raised,
                            files |-> IF zip_data.raised # "" THEN <<>>
                                      ELSE IndividualButtons(export_env, export_env.data,
                                                             export_format)]
    /\ UNCHANGED <<export_env, resolverVars, filterVars, tabVars, healthVars, sessionVars>>

ExportNext == CallGetDownloadData \/ CallCreateZipDownload \/ RenderDownloadButtons

SpecExport == ExportInit /\ [][ExportNext]_vars

(* ------------------------- claims on the export ------------------------ *)

\* The bytes of table name in the outcome of the last export call.
FileBytes(name) ==
    IF downloads.op = "create_zip_download"
    THEN downloads.files[name].file_data ELSE downloads.files[name]

\* C15: get_download_data and create_zip_download with format "parquet" do
\* not raise and give a file for every table, in CSV for the tables whose
\* Parquet encoding is unavailable or fails, in Parquet for the others.
C15_ExportFallsBackToCsv ==
    (downloads.op \in {"get_download_data", "create_zip_download"}
        /\ downloads.format = "parquet") =>
        /\ downloads.raised = ""
        /\ DOMAIN downloads.files = DOMAIN export_env.data
        /\ \A name \in DOMAIN export_env.data :
              FileBytes(name) =
                  Encoded(IF ExportToParquet(export_env, name, export_env.data[name]).raised = ""
                          THEN "parquet" ELSE "csv",
                          export_env.data[name])

\* C30: render_download_buttons offers a file for every table, also for a
\* table whose Parquet encoding failed, and the extension of its name and its
\* MIME type are those of the encoding of its bytes.
C30_OfferedFilesMatchEncoding ==
    downloads.op = "render_download_buttons" =>
        /\ DOMAIN downloads.files = DOMAIN export_env.data
        /\ \A name \in DOMAIN downloads.files :
              LET button == downloads.files[name]
              IN  /\ button.file_name = <<name, button.data.format>>
                  /\ button.mime = (IF button.data.format = "csv" THEN "text/csv"
                                    ELSE "application/octet-stream")

(* -------------------------------- tabs --------------------------------- *)

\* The possible current rows of a table set: current_jobs, current_orgs,
\* and current_comp when the compensation table is there.
CurrentOf(d) ==
    [current_jobs : CurrentRowsInOrder(d["employee_job_assignment"]),
     current_orgs : CurrentRowsInOrder(d["employee_org_assignment"]),
     current_comp : IF HasTable(d, "employee_compensation")
                    THEN CurrentRowsInOrder(d["employee_compensation"])
                    ELSE {<<>>}]

\* Mutant: the compensation merged with how="inner".
EnrichEmployeeDataInnerComp(d, cur) ==
    LET employees_df == EmployeesEnriched(d, cur.current_jobs, cur.current_orgs)
    IN  IF HasTable(d, "employee_compensation")
        THEN InnerMerge(employees_df, cur.current_comp, "employee_id", "base_salary")
        ELSE employees_df

\* enrich_employee_data(data), given the current rows (lines 258-310). Of
\* the columns a merge adds from one row of a reference table the model
\* keeps one: seniority_level of job_role, business_unit of
\* organization_unit, country of location, base_salary of the compensation.
EnrichEmployeeData(d, cur) ==
    LET jobs == LeftMerge(d["employee"], cur.current_jobs, "employee_id", "job_id")
        roles == LeftMerge(jobs, d["job_role"], "job_id", "seniority_level")
        orgs == LeftMerge(roles, cur.current_orgs, "employee_id", "org_id")
        units == LeftMergeObj(orgs, d["organization_unit"], "org_id", "business_unit")
        employees_df == LeftMergeObj(units, d["location"], "location_id", "country")
    IN  IF HasTable(d, "employee_compensation")
        THEN LeftMerge(employees_df, cur.current_comp, "employee_id", "base_salary")
        ELSE employees_df

\* What compensation.render shows (lines 23-36): a warning, or the charts
\* of the page.
CompensationRender(d) ==
    IF ~HasTable(d, "employee_compensation") THEN "Compensation data not available."
    ELSE IF Len(d["employee"]) = 0 THEN "No employees match the current filters."
    ELSE "charts"

\* What performance.render shows (lines 23-33).
PerformanceRender(d) ==
    IF ~HasTable(d, "employee_performance") THEN "Performance data not available."
    ELSE IF Len(d["employee"]) = 0 THEN "No employees match the current filters."
    ELSE "charts"

(* ---------------------- specification of the tabs ---------------------- *)

\* A location table in which location_id 1 occurs twice.
LocationWithDuplicate ==
    WithIndex(<<[location_id |-> 1, country |-> "Australia"],
                [location_id |-> 2, country |-> "Japan"],
                [location_id |-> 1, country |-> "Japan"]>>)

TabsTableSets ==
    TableSets \cup
        {[TableSet([e \in EmployeeIds |-> CompleteProfile], opt)
            EXCEPT !["location"] = LocationWithDuplicate] : opt \in SUBSET OptionalTables}

\* The view filters of the run: a business unit or none, a salary range or
\* none.
TabsFilterArgs ==
    {f \in FilterArgs :
        /\ f.business_units \in {NoArg, Arg(<<"Sales">>)}
        /\ f.seniority_levels = NoArg
        /\ f.countries = NoArg}

TabsInit ==
    /\ data \in TabsTableSets
    /\ filters = NoTable
    /\ resolved = NoTable
    /\ filtered_data = NoTable
    /\ pc = "loaded"
    /\ enriched_df = NoTable
    /\ tabs = NoTable
    /\ ResolverIdle
    /\ HealthIdle
    /\ SessionIdle
    /\ ExportIdle

\* One run of main from get_filtered_data on (app.py lines 104-151): the
\* filtered table set, the frame overview.render enriches (overview.py line
\* 26) and what the compensation and performance tabs show.
RenderTabs ==
    /\ pc = "loaded"
    /\ \E f \in TabsFilterArgs, cur \in CurrentOf(data) :
          LET result == GetFilteredData(data, f, cur)
          IN  /\ filters' = f
              /\ resolved' = cur
              /\ filtered_data' = result
              /\ \E enrich_cur \in CurrentOf(result) :
                    enriched_df' = EnrichEmployeeData(result, enrich_cur)
              /\ tabs' = [compensation |-> CompensationRender(result),
                          performance |-> PerformanceRender(result)]
    /\ pc' = "rendered"
    /\ UNCHANGED <<data, resolverVars, healthVars, sessionVars, exportVars>>

TabsNext == RenderTabs

SpecTabs == TabsInit /\ [][TabsNext]_vars

(* -------------------------- claims on the tabs ------------------------- *)

\* C16: with employee_compensation or employee_performance missing,
\* get_filtered_data returns the tables of the input and no other, as it
\* does without salary_range when the compensation is missing;
\* enrich_employee_data returns a row for every employee; and the tab of a
\* missing table shows its "not available" message.
C16_MissingOptionalTables ==
    (pc = "rendered" /\ ~(OptionalTables \subseteq DOMAIN data)) =>
        /\ DOMAIN filtered_data = DOMAIN data
        /\ ~HasTable(data, "employee_compensation") =>
              /\ filtered_data =
                    GetFilteredData(data, [filters EXCEPT !.salary_range = NoArg], resolved)
              /\ tabs.compensation = "Compensation data not available."
        /\ ~HasTable(data, "employee_performance") =>
              tabs.performance = "Performance data not available."
        /\ EmpIds(enriched_df) = EmpIds(filtered_data["employee"])

C16_Witness ==
    /\ pc = "rendered"
    /\ DOMAIN data \cap OptionalTables = {}
    /\ filters.salary_range = Arg(<<2, 2>>)
    /\ Len(filtered_data["employee"]) = NumEmp
    /\ Len(enriched_df) = NumEmp
    /\ tabs.compensation = "Compensation data not available."
    /\ tabs.performance = "Performance data not available."

\* Every key of the reference table occurs once.
UniqueKey(t, key) == \A i, j \in DOMAIN t : t[i][key] = t[j][key] => i = j

\* The value of column col in the row of t with that key, or missing.
Lookup(t, key, k, col, missing) ==
    IF \E r \in Range(t) : r[key] = k
    THEN (CHOOSE r \in Range(t) : r[key] = k)[col]
    ELSE missing

\* C19: with job_id, org_id and location_id unique in their reference
\* tables, enrich_employee_data returns one row for each row of the employee
\* table, in its order, and a row's attributes are those of the employee's
\* current job, organization unit, location and compensation, or null where
\* the employee has none or the reference table has no row for it.
C19_EnrichLeftJoins ==
    (/\ pc = "rendered"
     /\ UniqueKey(filtered_data["job_role"], "job_id")
     /\ UniqueKey(filtered_data["organization_unit"], "org_id")
     /\ UniqueKey(filtered_data["location"], "location_id")) =>
        /\ Len(enriched_df) = Len(filtered_data["employee"])
        /\ \A i \in DOMAIN enriched_df :
              LET row == enriched_df[i]
                  e == row.employee_id
                  jobs == LatestRows(filtered_data["employee_job_assignment"], e)
                  orgs == LatestRows(filtered_data["employee_org_assignment"], e)
              IN  /\ e = filtered_data["employee"][i].employee_id
                  /\ row.location_id = filtered_data["employee"][i].location_id
                  /\ IF jobs = {} THEN row.job_id = NaN
                     ELSE row.job_id \in {r.job_id : r \in jobs}
                  /\ row.seniority_level =
                        Lookup(filtered_data["job_role"], "job_id", row.job_id,
                               "seniority_level", NaN)
                  /\ IF orgs = {} THEN row.org_id = NaN
                     ELSE row.org_id \in {r.org_id : r \in orgs}
                  /\ row.business_unit =
                        Lookup(filtered_data["organization_unit"], "org_id", row.org_id,
                               "business_unit", None)
                  /\ row.country =
                        Lookup(filtered_data["location"], "location_id", row.location_id,
                               "country", None)
                  /\ HasTable(filtered_data, "employee_compensation") =>
                        LET comps == LatestRows(filtered_data["employee_compensation"], e)
                        IN  IF comps = {} THEN row.base_salary = NaN
                            ELSE row.base_salary \in {r.base_salary : r \in comps}

C19_Witness ==
    /\ pc = "rendered"
    /\ UniqueKey(filtered_data["location"], "location_id")
    /\ HasTable(filtered_data, "employee_compensation")
    /\ Len(enriched_df) = NumEmp
    /\ \E i \in DOMAIN enriched_df :
          /\ enriched_df[i].base_salary = NaN
          /\ enriched_df[i].seniority_level # NaN
    /\ \E i \in DOMAIN enriched_df :
          /\ enriched_df[i].base_salary # NaN
          /\ (enriched_df[i].job_id = NaN \/ enriched_df[i].business_unit = None
                \/ enriched_df[i].country = None)

====
